---- MODULE Spec2Model ----
(***************************************************************************)
(* A model of feroldi::pmr (include/memory_resource.hpp): the default      *)
(* resource registry, polymorphic_allocator, the two stock resources and   *)
(* monotonic_buffer_resource.                                              *)
(***************************************************************************)
EXTENDS Integers, Sequences, FiniteSets, Bags, TLC

(* ------------------------------ bounds --------------------------------- *)

\* width of std::size_t in the model (bits); arithmetic is modulo 2^SizeBits
SizeBits == 3

\* how many polymorphic_allocator objects a run may create
MaxAdapters == 2

(* ----------------------------- resources ------------------------------- *)

\* the null pointer
nullptr == "nullptr"

\* the address of the static object inside new_delete_resource()
new_delete_resource == "new_delete"

\* the address of the static object inside null_memory_resource()
null_memory_resource == "null_mr"

\* two instances of one memory_resource subclass written by the user
UserResources == {"user_a", "user_b"}

\* every memory_resource object of a run, by address
Resource == {new_delete_resource, null_memory_resource} \cup UserResources

\* every value a memory_resource* argument can take
Pointer == Resource \cup {nullptr}

VARIABLES
  default_resource,  \* the atomic inside detail::get_default_resource_impl()
  user_is_equal,     \* what the user class's do_is_equal answers for another instance
  adapters,          \* the polymorphic_allocator objects made so far: their res
  aborted,           \* assert() has terminated the program
  last,              \* the call that was made last and what it returned
  calls,             \* the memory_resource::allocate calls that call made
  obj,               \* the object the last construct() built
  set_called,        \* set_default_resource has been called
  thread,            \* per thread: where it is in its call, its r, its result
  installed,         \* the values the exchanges done so far stored (a bag)
  returned,          \* the values the set_default_resource calls returned (a bag)
  last_set,          \* the argument of the call whose exchange came last
  arena,             \* a monotonic_buffer_resource
  twin,              \* a second one, constructed anew when arena is released
  history,           \* the calls made on arena since its construction
  upstream_freed     \* the chunks arena has given back to upstream, in order

seqvars == <<default_resource, user_is_equal, adapters, aborted, last, calls, obj,
             set_called>>

thrvars == <<thread, installed, returned, last_set>>

arenavars == <<arena, twin, history, upstream_freed>>

vars == <<seqvars, thrvars, arenavars>>

(* --------------------------- memory_resource --------------------------- *)

\* the derived classes' do_is_equal(other), called on object a
do_is_equal(a, b, userEq) ==
  IF a \in UserResources
    THEN (a = b) \/ (userEq /\ b \in UserResources)
    ELSE a = b

\* memory_resource::is_equal
is_equal(a, b, userEq) == do_is_equal(a, b, userEq)

\* operator==(const memory_resource &, const memory_resource &)
memory_resource_eq(a, b, userEq) == (a = b) \/ is_equal(a, b, userEq)

\* the failures an allocate call can end with
Failure == {"bad_alloc", "user_exception"}

\* the derived classes' do_allocate: what the call ends with. ok is whether the
\* host allocator (or the user's resource) has the storage.
do_allocate(r, bytes, alignment, ok) ==
  CASE r = null_memory_resource -> "bad_alloc"
    [] r = new_delete_resource -> IF ok THEN "ptr" ELSE "bad_alloc"
    [] OTHER -> IF ok THEN "ptr" ELSE "user_exception"

\* memory_resource::allocate, as the record of one call
memory_resource_allocate(r, bytes, alignment, ok) ==
  [res |-> r, bytes |-> bytes, alignment |-> alignment,
   outcome |-> do_allocate(r, bytes, alignment, ok)]

(* ------------------------------ registry ------------------------------- *)

\* the initializer of the static atomic
get_default_resource_impl_init == new_delete_resource

\* atomic load
get_default_resource(reg) == reg

\* set_default_resource's null substitution
set_default_resource_arg(r) == IF r = nullptr THEN new_delete_resource ELSE r

\* std::atomic::exchange: the stored value after, and the value returned
exchange_ret_new(reg, r) == [stored |-> r, ret |-> r]

exchange(reg, r) == [stored |-> r, ret |-> reg]

\* set_default_resource without its null check
set_default_resource_nocheck(reg, r) == exchange(reg, r)

\* set_default_resource
set_default_resource(reg, r) == exchange(reg, set_default_resource_arg(r))

(* ------------------------ polymorphic_allocator ------------------------ *)

\* std::size_t arithmetic wraps modulo 2^SizeBits
Modulus == 2 ^ SizeBits

\* the value types Tp an adapter is instantiated with: sizeof(Tp), alignof(Tp)
ValueType ==
  {[sizeof |-> 1, alignof |-> 1], [sizeof |-> 2, alignof |-> 2],
   [sizeof |-> 4, alignof |-> 4]}

\* the alignments a caller of memory_resource::allocate may pass
Alignment == {2 ^ k : k \in 0 .. (SizeBits - 1)}

\* polymorphic_allocator(): res(get_default_resource())
polymorphic_allocator_default(reg) == get_default_resource(reg)

\* the constructor without its assert
polymorphic_allocator_from_noassert(r) == [asserted |-> TRUE, res |-> r]

\* polymorphic_allocator(memory_resource *r): res(r) { assert(r); }
polymorphic_allocator_from(r) == [asserted |-> r # nullptr, res |-> r]

\* the copy constructor and the rebinding constructor: res(other.resource())
polymorphic_allocator_copy(other) == other

\* operator==(const polymorphic_allocator<T1> &, const polymorphic_allocator<T2> &)
polymorphic_allocator_eq(a, b, userEq) == memory_resource_eq(a, b, userEq)

\* select_on_container_copy_construction that copies *this
select_on_container_copy_construction_self(res, reg) == polymorphic_allocator_copy(res)

\* select_on_container_copy_construction: return polymorphic_allocator()
select_on_container_copy_construction(res, reg) == polymorphic_allocator_default(reg)

\* allocate that turns to new_delete_resource() when the bound resource fails
allocate_fallback(res, T, n, ok) ==
  LET c1 == memory_resource_allocate(res, (n * T.sizeof) % Modulus, T.alignof, ok)
      c2 == memory_resource_allocate(new_delete_resource, (n * T.sizeof) % Modulus,
                                     T.alignof, TRUE)
  IN  IF c1.outcome \in Failure
        THEN [ret |-> c2.outcome, calls |-> <<c1, c2>>]
        ELSE [ret |-> c1.outcome, calls |-> <<c1>>]

\* polymorphic_allocator::allocate(n): res->allocate(n * sizeof(Tp), alignof(Tp))
allocate(res, T, n, ok) ==
  LET c == memory_resource_allocate(res, (n * T.sizeof) % Modulus, T.alignof, ok)
  IN  [ret |-> c.outcome, calls |-> <<c>>]

(* --------------------- uses-allocator construction --------------------- *)

\* a constructed type T, by the three facts construct() asks of it:
\* std::uses_allocator_v<T, Alloc>, is_constructible<T, allocator_arg_t, Alloc, Args...>
\* and is_constructible<T, Args..., Alloc>
ConstructedType == [uses_allocator : BOOLEAN, leading : BOOLEAN, trailing : BOOLEAN]

\* the argument lists a caller passes to construct()
ArgList == {<<>>, <<"x">>, <<"x", "y">>}

\* uses_alloc_ctor_impl that looks at the trailing form first
uses_alloc_ctor_impl_trailing_first(T) ==
  IF ~T.uses_allocator
    THEN [value |-> 0, static_assert |-> TRUE]
    ELSE [value |-> IF T.trailing THEN 2 ELSE 1,
          static_assert |-> T.leading \/ T.trailing]

\* uses_alloc_ctor_impl<UsesAlloc, T, Alloc, Args...>: value, and its static_assert
uses_alloc_ctor_impl(T) ==
  IF ~T.uses_allocator
    THEN [value |-> 0, static_assert |-> TRUE]
    ELSE LET first_ctor == T.leading
             second_ctor == IF first_ctor THEN FALSE ELSE T.trailing
         IN  [value |-> IF first_ctor THEN 1 ELSE 2,
              static_assert |-> first_ctor \/ second_ctor]

\* one constructor argument
Arg(v) == [kind |-> "arg", v |-> v]

AllocatorArg == [kind |-> "allocator_arg", v |-> "allocator_arg"]

\* *this, copied into the constructor's allocator parameter
This(res) == [kind |-> "alloc", v |-> polymorphic_allocator_copy(res)]

Forward(args) == [k \in 1 .. Len(args) |-> Arg(args[k])]

\* the three _construct overloads: the argument list T's constructor is called with
_construct(tag, res, args) ==
  CASE tag = 0 -> Forward(args)
    [] tag = 1 -> <<AllocatorArg, This(res)>> \o Forward(args)
    [] tag = 2 -> Forward(args) \o <<This(res)>>

\* polymorphic_allocator::construct(p, args...)
construct(res, T, args) ==
  LET uses_alloc_tag == uses_alloc_ctor_impl(T)
  IN  IF uses_alloc_tag.static_assert
        THEN [built |-> TRUE, form |-> uses_alloc_tag.value,
              ctor_args |-> _construct(uses_alloc_tag.value, res, args)]
        ELSE [built |-> FALSE, form |-> uses_alloc_tag.value, ctor_args |-> <<>>]

\* no object
NoObject == [built |-> FALSE, form |-> 0, ctor_args |-> <<>>]

(* --------------------------- the program's calls ----------------------- *)

\* a type that takes no allocator
PlainType == [uses_allocator |-> FALSE, leading |-> FALSE, trailing |-> FALSE]

\* the record of a call: the adapter it was made on (its index, 0 for none), its
\* pointer argument, its numbers, the constructed type and arguments, its result
CallOf(op, self, arg, n, size, T, args, ret) ==
  [op |-> op, self |-> self, arg |-> arg, n |-> n, size |-> size,
   ty |-> T, args |-> args, ret |-> ret]

Call(op, self, arg, n, size, ret) ==
  CallOf(op, self, arg, n, size, PlainType, <<>>, ret)

(* ---------------------- monotonic_buffer_resource ---------------------- *)

\* alignof(std::max_align_t), the default alignment of allocate
max_align == 16

\* where the growth of next_buffer_size stops
MaxBufferSize == 256

\* how many calls a run makes on the arena
MaxArenaOps == 4

\* the initial sizes a run constructs the arena with
InitialSize == {16, 64}

\* the byte counts and alignments a run asks the arena for
RequestBytes == {1, 24, 40}

RequestAlignment == {8, max_align}

Max(a, b) == IF a >= b THEN a ELSE b

\* n rounded up to a multiple of alignment
RoundUp(n, alignment) == ((n + alignment - 1) \div alignment) * alignment

\* the next chunk size after one acquisition: doubled, up to MaxBufferSize
Grow(n) == IF 2 * n > MaxBufferSize THEN Max(n, MaxBufferSize) ELSE 2 * n

\* monotonic_buffer_resource(initial_size, upstream): no chunk yet
monotonic_buffer_resource(initial_size, upstream) ==
  [upstream |-> upstream, current_buffer |-> <<>>,
   next_buffer_size |-> initial_size, initial_size |-> initial_size, acquired |-> 0]

\* what an allocate call returned: the chunk (by the order of acquisition) and
\* the offset in it
Returns(outcome, chunk, offset) == [outcome |-> outcome, chunk |-> chunk, offset |-> offset]

\* whether the request goes into the current chunk
Fits(a, bytes, alignment) ==
  /\ a.current_buffer # <<>>
  /\ RoundUp(a.current_buffer[1].offset, alignment) + RoundUp(bytes, alignment)
       <= a.current_buffer[1].size

\* do_allocate whose test for room leaves the alignment out
monotonic_do_allocate_no_padding(a, bytes, alignment, ok) ==
  LET rounded == RoundUp(bytes, alignment)
      size == Max(rounded, a.next_buffer_size)
      up == memory_resource_allocate(a.upstream, size, alignment, ok)
  IN  IF a.current_buffer # <<>>
           /\ a.current_buffer[1].offset + bytes <= a.current_buffer[1].size
        THEN LET start == RoundUp(a.current_buffer[1].offset, alignment)
             IN  [arena |-> [a EXCEPT !.current_buffer[1].offset = start + rounded],
                  ret |-> Returns("ptr", a.current_buffer[1].id, start),
                  upstream_calls |-> <<>>]
      ELSE IF up.outcome = "ptr"
        THEN [arena |-> [a EXCEPT !.current_buffer =
                             <<[id |-> a.acquired + 1, size |-> size, offset |-> rounded]>> \o @,
                           !.next_buffer_size = Grow(@),
                           !.acquired = @ + 1],
              ret |-> Returns("ptr", a.acquired + 1, 0),
              upstream_calls |-> <<up>>]
      ELSE [arena |-> a, ret |-> Returns(up.outcome, 0, 0), upstream_calls |-> <<up>>]

\* monotonic_buffer_resource::do_allocate(bytes, alignment): the arena after, what
\* the call returned and the calls it made on upstream
monotonic_do_allocate(a, bytes, alignment, ok) ==
  LET rounded == RoundUp(bytes, alignment)
      size == Max(rounded, a.next_buffer_size)
      up == memory_resource_allocate(a.upstream, size, alignment, ok)
  IN  IF Fits(a, bytes, alignment)
        THEN LET start == RoundUp(a.current_buffer[1].offset, alignment)
             IN  [arena |-> [a EXCEPT !.current_buffer[1].offset = start + rounded],
                  ret |-> Returns("ptr", a.current_buffer[1].id, start),
                  upstream_calls |-> <<>>]
      ELSE IF up.outcome = "ptr"
        THEN [arena |-> [a EXCEPT !.current_buffer =
                             <<[id |-> a.acquired + 1, size |-> size, offset |-> rounded]>> \o @,
                           !.next_buffer_size = Grow(@),
                           !.acquired = @ + 1],
              ret |-> Returns("ptr", a.acquired + 1, 0),
              upstream_calls |-> <<up>>]
      ELSE [arena |-> a, ret |-> Returns(up.outcome, 0, 0), upstream_calls |-> <<up>>]

\* monotonic_buffer_resource::do_deallocate: nothing
monotonic_do_deallocate(a) == a

\* release that keeps next_buffer_size where the growth left it
release_keep_size(a) ==
  [arena |-> [a EXCEPT !.current_buffer = <<>>],
   deallocated |-> [k \in DOMAIN a.current_buffer |-> a.current_buffer[k].id]]

\* monotonic_buffer_resource::release(): the arena after, and the chunks it
\* deallocates on upstream, walking the chain from its head
release(a) ==
  [arena |-> [a EXCEPT !.current_buffer = <<>>, !.next_buffer_size = a.initial_size],
   deallocated |-> [k \in DOMAIN a.current_buffer |-> a.current_buffer[k].id]]

\* the arena as a caller can tell it from another: its chunks' sizes and
\* offsets, and the size of the next chunk
Shape(a) ==
  [chunks |-> [k \in DOMAIN a.current_buffer |->
                 <<a.current_buffer[k].size, a.current_buffer[k].offset>>],
   next_buffer_size |-> a.next_buffer_size]

NoTwin == [active |-> FALSE, ret |-> Returns("none", 0, 0), acquired |-> <<>>]

\* no arena is in use
InitNoArena ==
  /\ arena = monotonic_buffer_resource(max_align, new_delete_resource)
  /\ twin = NoTwin @@ [arena |-> arena]
  /\ history = <<>>
  /\ upstream_freed = <<>>

(* ------------------------------- threads ------------------------------- *)

\* the threads of a run
Threads == {"t1", "t2"}

\* how many calls each thread makes
MaxCalls == 2

\* a thread between two calls, having made done calls, the last one op returning ret
ThreadAt(pc, arg, r, done, op, ret) ==
  [pc |-> pc, arg |-> arg, r |-> r, done |-> done, op |-> op, ret |-> ret]

\* no thread runs
InitNoThreads ==
  /\ thread = [t \in Threads |-> ThreadAt("idle", nullptr, nullptr, MaxCalls, "none", nullptr)]
  /\ installed = EmptyBag
  /\ returned = EmptyBag
  /\ last_set = "none"

InitSeq ==
  /\ default_resource = get_default_resource_impl_init
  /\ user_is_equal \in BOOLEAN
  /\ adapters = <<>>
  /\ aborted = FALSE
  /\ last = Call("none", 0, nullptr, 0, 0, "none")
  /\ calls = <<>>
  /\ obj = NoObject
  /\ set_called = FALSE

\* r = get_default_resource()
GetDefaultResource ==
  /\ ~aborted
  /\ last' = Call("get_default_resource", 0, nullptr, 0, 0,
                  get_default_resource(default_resource))
  /\ calls' = <<>>
  /\ obj' = NoObject
  /\ UNCHANGED <<default_resource, user_is_equal, adapters, aborted, set_called, thrvars, arenavars>>

\* old = set_default_resource(r)
SetDefaultResource ==
  \E r \in Pointer :
    LET x == set_default_resource(default_resource, r)
    IN  /\ ~aborted
        /\ default_resource' = x.stored
        /\ last' = Call("set_default_resource", 0, r, 0, 0, x.ret)
        /\ calls' = <<>>
        /\ obj' = NoObject
        /\ set_called' = TRUE
        /\ UNCHANGED <<user_is_equal, adapters, aborted, thrvars, arenavars>>

\* polymorphic_allocator<Tp> a;
ConstructDefault ==
  /\ ~aborted
  /\ Len(adapters) < MaxAdapters
  /\ adapters' = Append(adapters, polymorphic_allocator_default(default_resource))
  /\ last' = Call("polymorphic_allocator()", Len(adapters) + 1, nullptr, 0, 0, "made")
  /\ calls' = <<>>
  /\ obj' = NoObject
  /\ UNCHANGED <<default_resource, user_is_equal, aborted, set_called, thrvars, arenavars>>

\* polymorphic_allocator<Tp> a(r);
ConstructFrom ==
  \E r \in Pointer :
    LET a == polymorphic_allocator_from(r)
    IN  /\ ~aborted
        /\ Len(adapters) < MaxAdapters
        /\ IF a.asserted
             THEN /\ adapters' = Append(adapters, a.res)
                  /\ aborted' = FALSE
                  /\ last' = Call("polymorphic_allocator(r)", Len(adapters) + 1, r,
                                  0, 0, "made")
             ELSE /\ adapters' = adapters
                  /\ aborted' = TRUE
                  /\ last' = Call("polymorphic_allocator(r)", 0, r, 0, 0, "assert")
        /\ calls' = <<>>
        /\ obj' = NoObject
        /\ UNCHANGED <<default_resource, user_is_equal, set_called, thrvars, arenavars>>

\* polymorphic_allocator<U> b(a);
ConstructCopy ==
  \E i \in DOMAIN adapters :
    /\ ~aborted
    /\ Len(adapters) < MaxAdapters
    /\ adapters' = Append(adapters, polymorphic_allocator_copy(adapters[i]))
    /\ last' = Call("polymorphic_allocator(other)", Len(adapters) + 1, adapters[i],
                    0, 0, "made")
    /\ calls' = <<>>
    /\ obj' = NoObject
    /\ UNCHANGED <<default_resource, user_is_equal, aborted, set_called, thrvars, arenavars>>

\* b = a.select_on_container_copy_construction()
SelectOnContainerCopyConstruction ==
  \E i \in DOMAIN adapters :
    /\ ~aborted
    /\ Len(adapters) < MaxAdapters
    /\ adapters' = Append(adapters,
         select_on_container_copy_construction(adapters[i], default_resource))
    /\ last' = Call("select_on_container_copy_construction", i, nullptr, 0, 0, "made")
    /\ calls' = <<>>
    /\ obj' = NoObject
    /\ UNCHANGED <<default_resource, user_is_equal, aborted, set_called, thrvars, arenavars>>

\* an adapter goes out of scope (the one made last)
Destroy ==
  /\ ~aborted
  /\ adapters # <<>>
  /\ adapters' = SubSeq(adapters, 1, Len(adapters) - 1)
  /\ last' = Call("~polymorphic_allocator", 0, nullptr, 0, 0, "none")
  /\ calls' = <<>>
  /\ obj' = NoObject
  /\ UNCHANGED <<default_resource, user_is_equal, aborted, set_called, thrvars, arenavars>>

\* p = a.allocate(n)
Allocate ==
  \E i \in DOMAIN adapters, T \in ValueType, n \in 0 .. (Modulus - 1), ok \in BOOLEAN :
    LET x == allocate(adapters[i], T, n, ok)
    IN  /\ ~aborted
        /\ last' = Call("allocate", i, adapters[i], n, T.sizeof, x.ret)
        /\ calls' = x.calls
        /\ obj' = NoObject
        /\ UNCHANGED <<default_resource, user_is_equal, adapters, aborted, set_called, thrvars, arenavars>>

\* p = r->allocate(bytes, alignment)
ResourceAllocate ==
  \E r \in Resource, bytes \in 0 .. (Modulus - 1), al \in Alignment, ok \in BOOLEAN :
    LET c == memory_resource_allocate(r, bytes, al, ok)
    IN  /\ ~aborted
        /\ last' = Call("memory_resource::allocate", 0, r, bytes, al, c.outcome)
        /\ calls' = <<c>>
        /\ obj' = NoObject
        /\ UNCHANGED <<default_resource, user_is_equal, adapters, aborted, set_called, thrvars, arenavars>>

\* a.construct(p, args...)
Construct ==
  \E i \in DOMAIN adapters, T \in ConstructedType, args \in ArgList :
    /\ ~aborted
    /\ obj' = construct(adapters[i], T, args)
    /\ last' = CallOf("construct", i, adapters[i], 0, 0, T, args,
                      IF construct(adapters[i], T, args).built
                        THEN "built" ELSE "ill-formed")
    /\ calls' = <<>>
    /\ UNCHANGED <<default_resource, user_is_equal, adapters, aborted, set_called, thrvars, arenavars>>

\* the registry and the adapters' constructors
Next ==
  \/ GetDefaultResource
  \/ SetDefaultResource
  \/ ConstructDefault
  \/ ConstructFrom
  \/ ConstructCopy
  \/ SelectOnContainerCopyConstruction
  \/ Destroy

Init == InitSeq /\ InitNoThreads /\ InitNoArena

Spec == Init /\ [][Next]_vars

\* one adapter, bound to any resource, under any registry value
InitAdapter ==
  /\ default_resource \in Resource
  /\ user_is_equal = FALSE
  /\ adapters \in {<<r>> : r \in Resource}
  /\ aborted = FALSE
  /\ last = Call("none", 0, nullptr, 0, 0, "none")
  /\ calls = <<>>
  /\ obj = NoObject
  /\ set_called = (default_resource # new_delete_resource)

\* the calls made through an adapter
NextAdapter ==
  \/ Allocate
  \/ ResourceAllocate
  \/ Construct

InitAdapterOnly == InitAdapter /\ InitNoThreads /\ InitNoArena

SpecAdapter == InitAdapterOnly /\ [][NextAdapter]_vars

(* --------------------- the registry under threads ---------------------- *)

InitThreads ==
  /\ default_resource = get_default_resource_impl_init
  /\ user_is_equal = FALSE
  /\ adapters = <<>>
  /\ aborted = FALSE
  /\ last = Call("none", 0, nullptr, 0, 0, "none")
  /\ calls = <<>>
  /\ obj = NoObject
  /\ set_called = FALSE
  /\ thread = [t \in Threads |-> ThreadAt("idle", nullptr, nullptr, 0, "none", nullptr)]
  /\ installed = EmptyBag
  /\ returned = EmptyBag
  /\ last_set = "none"

\* thread t enters get_default_resource()
ThreadCallGet(t) ==
  /\ thread[t].pc = "idle"
  /\ thread[t].done < MaxCalls
  /\ thread' = [thread EXCEPT ![t] =
       ThreadAt("load", nullptr, nullptr, @.done, "get_default_resource", nullptr)]
  /\ UNCHANGED <<seqvars, installed, returned, last_set, arenavars>>

\* thread t's load, and the return of get_default_resource()
ThreadLoad(t) ==
  /\ thread[t].pc = "load"
  /\ thread' = [thread EXCEPT ![t] =
       ThreadAt("idle", @.arg, @.r, @.done + 1, @.op,
                get_default_resource(default_resource))]
  /\ UNCHANGED <<seqvars, installed, returned, last_set, arenavars>>

\* thread t enters set_default_resource(r): if (!r) r = new_delete_resource();
ThreadCallSet(t) ==
  \E r \in Pointer :
    /\ thread[t].pc = "idle"
    /\ thread[t].done < MaxCalls
    /\ thread' = [thread EXCEPT ![t] =
         ThreadAt("exchange", r, set_default_resource_arg(r), @.done,
                  "set_default_resource", nullptr)]
    /\ UNCHANGED <<seqvars, installed, returned, last_set, arenavars>>

\* thread t's exchange, and the return of set_default_resource(r)
ThreadExchange(t) ==
  LET x == exchange(default_resource, thread[t].r)
  IN  /\ thread[t].pc = "exchange"
      /\ default_resource' = x.stored
      /\ set_called' = TRUE
      /\ thread' = [thread EXCEPT ![t] =
           ThreadAt("idle", @.arg, @.r, @.done + 1, @.op, x.ret)]
      /\ installed' = installed (+) SetToBag({thread[t].r})
      /\ returned' = returned (+) SetToBag({x.ret})
      /\ last_set' = thread[t].arg
      /\ UNCHANGED <<user_is_equal, adapters, aborted, last, calls, obj, arenavars>>

NextThreads ==
  \E t \in Threads :
    \/ ThreadCallGet(t)
    \/ ThreadLoad(t)
    \/ ThreadCallSet(t)
    \/ ThreadExchange(t)

InitThreadsOnly == InitThreads /\ InitNoArena

SpecThreads == InitThreadsOnly /\ [][NextThreads]_vars

(* ------------------------------ the arena ------------------------------ *)

InitArena ==
  /\ default_resource = get_default_resource_impl_init
  /\ user_is_equal = FALSE
  /\ adapters = <<>>
  /\ aborted = FALSE
  /\ last = Call("none", 0, nullptr, 0, 0, "none")
  /\ calls = <<>>
  /\ obj = NoObject
  /\ set_called = FALSE
  /\ arena \in {monotonic_buffer_resource(sz, up) :
                  sz \in InitialSize, up \in {new_delete_resource, null_memory_resource}}
  /\ twin = NoTwin @@ [arena |-> arena]
  /\ history = <<>>
  /\ upstream_freed = <<>>

\* the sizes of the chunks a call acquired from upstream
Acquired(x) ==
  [k \in {j \in DOMAIN x.upstream_calls : x.upstream_calls[j].outcome = "ptr"}
     |-> x.upstream_calls[k].bytes]

\* p = arena.allocate(bytes, alignment)
ArenaAllocate ==
  \E bytes \in RequestBytes, alignment \in RequestAlignment, ok \in BOOLEAN :
    LET x == monotonic_do_allocate(arena, bytes, alignment, ok)
        y == monotonic_do_allocate(twin.arena, bytes, alignment, ok)
    IN  /\ Len(history) < MaxArenaOps
        /\ arena' = x.arena
        /\ history' = Append(history,
             [op |-> "allocate", bytes |-> bytes, alignment |-> alignment,
              ret |-> x.ret, upstream_calls |-> x.upstream_calls])
        /\ twin' = IF twin.active
                     THEN [active |-> TRUE, arena |-> y.arena, ret |-> y.ret,
                           acquired |-> Acquired(y)]
                     ELSE twin
        /\ UNCHANGED <<upstream_freed, seqvars, thrvars>>

\* arena.deallocate(p, bytes, alignment)
ArenaDeallocate ==
  /\ \E k \in DOMAIN history : history[k].ret.outcome = "ptr"
  /\ arena' = monotonic_do_deallocate(arena)
  /\ UNCHANGED <<twin, history, upstream_freed, seqvars, thrvars>>

\* arena.release()
ArenaRelease ==
  LET x == release(arena)
  IN  /\ Len(history) < MaxArenaOps
      /\ arena' = x.arena
      /\ upstream_freed' = upstream_freed \o x.deallocated
      /\ history' = Append(history,
           [op |-> "release", bytes |-> 0, alignment |-> max_align,
            ret |-> Returns("none", 0, 0), upstream_calls |-> <<>>])
      /\ twin' = [active |-> TRUE,
                  arena |-> monotonic_buffer_resource(arena.initial_size, arena.upstream),
                  ret |-> Returns("none", 0, 0), acquired |-> <<>>]
      /\ UNCHANGED <<seqvars, thrvars>>

NextArena ==
  \/ ArenaAllocate
  \/ ArenaDeallocate
  \/ ArenaRelease

InitArenaOnly == InitArena /\ InitNoThreads

SpecArena == InitArenaOnly /\ [][NextArena]_vars

(* ------------------------------ properties ----------------------------- *)

\* a step that is a call of op
IsCall(op) == last'.op = op

\* C1: set_default_resource(X), X non-null, returns the value
\* get_default_resource() would have returned just before the call; the registry
\* then holds X, no call other than set_default_resource changes the registry,
\* and get_default_resource() returns the registry's value: so a get after the
\* set, with no set in between, returns X.
C1_SetReturnsPrevious ==
  [][ /\ (IsCall("set_default_resource") /\ last'.arg # nullptr)
         => /\ last'.ret = default_resource
            /\ default_resource' = last'.arg
      /\ ~IsCall("set_default_resource") => default_resource' = default_resource
      /\ IsCall("get_default_resource") => last'.ret = default_resource
    ]_vars

C1_Witness ==
  /\ last.op = "set_default_resource"
  /\ last.arg = "user_a"
  /\ last.ret = null_memory_resource
  /\ default_resource = "user_a"

\* C2: the registry never holds null: it holds new_delete_resource() until the
\* first set_default_resource, set_default_resource(nullptr) leaves
\* new_delete_resource() in it, and neither get_default_resource nor
\* set_default_resource ever returns null.
C2_RegistryNeverNull ==
  /\ default_resource \in Resource
  /\ ~set_called => default_resource = new_delete_resource
  /\ (last.op = "get_default_resource" /\ ~set_called)
       => last.ret = new_delete_resource
  /\ (last.op = "set_default_resource" /\ last.arg = nullptr)
       => default_resource = new_delete_resource
  /\ last.op \in {"get_default_resource", "set_default_resource"}
       => last.ret \in Resource

C2_Witness ==
  /\ last.op = "set_default_resource"
  /\ last.arg = nullptr
  /\ last.ret = null_memory_resource
  /\ default_resource = new_delete_resource

\* the adapter select_on_container_copy_construction was called on, and the one
\* it returned
Original == adapters[last'.self]

Returned == adapters'[Len(adapters')]

\* C7 as stated: the returned adapter is bound to the registry's value at the
\* call, the original keeps its binding, and whenever the two resources are
\* different objects the returned adapter does not compare equal to the original.
C7_DistinctImpliesUnequal ==
  [][ IsCall("select_on_container_copy_construction")
        => /\ Returned = default_resource
           /\ default_resource' = default_resource
           /\ \A k \in DOMAIN adapters : adapters'[k] = adapters[k]
           /\ Returned # Original
                => ~polymorphic_allocator_eq(Returned, Original, user_is_equal)
    ]_vars

\* C7 (amended): the returned adapter is bound to the registry's value at the
\* call, the original keeps its binding, and the returned adapter does not
\* compare equal to the original when the two resources are different objects
\* that are not two instances of a class whose do_is_equal reports its
\* instances equal.
C7_SelectBindsDefault ==
  [][ IsCall("select_on_container_copy_construction")
        => /\ Returned = default_resource
           /\ default_resource' = default_resource
           /\ \A k \in DOMAIN adapters : adapters'[k] = adapters[k]
           /\ ( /\ Returned # Original
                /\ ~(user_is_equal /\ {Returned, Original} \subseteq UserResources) )
                => ~polymorphic_allocator_eq(Returned, Original, user_is_equal)
    ]_vars

C7_Witness ==
  /\ last.op = "select_on_container_copy_construction"
  /\ Len(adapters) = 2
  /\ adapters[last.self] = null_memory_resource
  /\ adapters[2] = "user_a"
  /\ default_resource = "user_a"

\* C8: every adapter holds a non-null resource, however it was made, and
\* constructing one from a null pointer trips the assertion: the program stops
\* and no adapter is made.
C8_AdapterNeverNull ==
  /\ [](\A i \in DOMAIN adapters : adapters[i] \in Resource)
  /\ []((last.op = "polymorphic_allocator(r)" /\ last.arg = nullptr)
          => (aborted /\ last.ret = "assert"))
  /\ [][ (IsCall("polymorphic_allocator(r)") /\ last'.arg = nullptr)
           => adapters' = adapters ]_vars

C8_Witness ==
  /\ aborted
  /\ last.op = "polymorphic_allocator(r)"
  /\ last.arg = nullptr
  /\ Len(adapters) = 1
  /\ adapters[1] = new_delete_resource
  /\ set_called

\* C4: allocate(n) fails with an allocation failure whenever n * sizeof(Tp) does
\* not fit in std::size_t (so that no wrapped-around byte count, forwarded to
\* the bound resource, ever yields storage).
C4_OverflowFails ==
  (last.op = "allocate" /\ last.n * last.size >= Modulus) => last.ret \in Failure

\* C5: when the bound resource's allocate fails, polymorphic_allocator::allocate
\* ends with that same failure after exactly one call, made on the bound
\* resource, and changes neither the adapter's binding nor the registry; and
\* every allocate on null_memory_resource(), through an adapter or directly, for
\* every byte count and alignment, fails.
C5_FailurePropagates ==
  [][ /\ (IsCall("allocate") /\ \E k \in DOMAIN calls' : calls'[k].outcome \in Failure)
         => /\ Len(calls') = 1
            /\ calls'[1].res = adapters[last'.self]
            /\ last'.ret = calls'[1].outcome
            /\ adapters' = adapters
            /\ default_resource' = default_resource
      /\ ( /\ last'.op \in {"allocate", "memory_resource::allocate"}
           /\ last'.arg = null_memory_resource )
         => /\ last'.ret = "bad_alloc"
            /\ \A k \in DOMAIN calls' : calls'[k].res = null_memory_resource
    ]_vars

C5_Witness ==
  /\ last.op = "allocate"
  /\ adapters[last.self] = "user_a"
  /\ last.ret = "user_exception"
  /\ Len(calls) = 1
  /\ default_resource = new_delete_resource

\* the adapter a constructed object stores: the allocator its constructor was given
StoredAdapter(o) ==
  {o.ctor_args[k].v : k \in {j \in DOMAIN o.ctor_args : o.ctor_args[j].kind = "alloc"}}

\* the caller's arguments as the constructor sees them
Plain(args) == [k \in DOMAIN args |-> [kind |-> "arg", v |-> args[k]]]

\* C6: construct picks the construction form from the three facts about T: not
\* allocator-aware: the arguments unchanged, no allocator; allocator-aware and
\* leading-tag constructible (trailing constructible or not): allocator_arg,
\* the adapter, the arguments; allocator-aware and only trailing constructible:
\* the arguments, the adapter; allocator-aware and neither: rejected. The
\* allocator passed is the adapter construct was called on.
C6_ConstructDispatch ==
  last.op = "construct" =>
    LET T == last.ty
        me == adapters[last.self]
        alloc == [kind |-> "alloc", v |-> me]
        tag == [kind |-> "allocator_arg", v |-> "allocator_arg"]
    IN  /\ ~T.uses_allocator
           => /\ obj.built
              /\ obj.ctor_args = Plain(last.args)
              /\ StoredAdapter(obj) = {}
        /\ (T.uses_allocator /\ T.leading)
           => /\ obj.built
              /\ obj.ctor_args = <<tag, alloc>> \o Plain(last.args)
        /\ (T.uses_allocator /\ ~T.leading /\ T.trailing)
           => /\ obj.built
              /\ obj.ctor_args = Plain(last.args) \o <<alloc>>
        /\ (T.uses_allocator /\ ~T.leading /\ ~T.trailing)
           => /\ ~obj.built
              /\ last.ret = "ill-formed"
        /\ (T.uses_allocator /\ obj.built)
           => /\ StoredAdapter(obj) = {me}
              /\ \A a \in StoredAdapter(obj) : polymorphic_allocator_eq(a, me, user_is_equal)

C6_Witness ==
  /\ last.op = "construct"
  /\ last.ty = [uses_allocator |-> TRUE, leading |-> TRUE, trailing |-> TRUE]
  /\ last.args = <<"x", "y">>
  /\ obj.form = 1
  /\ adapters[last.self] = null_memory_resource
  /\ default_resource = "user_b"

\* C3: under every interleaving each set_default_resource is one atomic
\* exchange: the values the set calls returned, together with the registry's
\* value, are the initial value and the values installed, each once; the
\* registry holds the argument of the set call whose exchange came last (the
\* pass-through resource for a null argument); every get_default_resource
\* returned the initial value or a value some set call had installed.
C3_AtomicExchange ==
  /\ returned (+) SetToBag({default_resource})
       = SetToBag({new_delete_resource}) (+) installed
  /\ default_resource =
       (CASE last_set = "none" -> new_delete_resource
          [] last_set = nullptr -> new_delete_resource
          [] OTHER -> last_set)
  /\ \A t \in Threads :
       (thread[t].op = "get_default_resource" /\ thread[t].pc = "idle")
         => thread[t].ret \in {new_delete_resource} \cup BagToSet(installed)

\* both threads done: three sets were made and a get returned a value that a
\* later set replaced
C3_Witness ==
  /\ \A t \in Threads : thread[t].pc = "idle" /\ thread[t].done = MaxCalls
  /\ thread["t1"].op = "set_default_resource"
  /\ thread["t2"].op = "get_default_resource"
  /\ thread["t1"].arg = "user_a"
  /\ thread["t1"].ret = "user_b"
  /\ thread["t2"].ret = "user_b"
  /\ default_resource = "user_a"
  /\ BagCardinality(installed) = 3

\* a step that is a call of op on the arena
IsArenaCall(op) ==
  /\ Len(history') = Len(history) + 1
  /\ history'[Len(history')].op = op

\* the call made last on the arena
LastCall == history[Len(history)]

\* the allocations made since the last release (or the construction), in order
Live ==
  LET released == {k \in DOMAIN history : history[k].op = "release"}
  IN  {k \in DOMAIN history :
         /\ history[k].op = "allocate"
         /\ history[k].ret.outcome = "ptr"
         /\ \A r \in released : r < k}

\* how often chunk id was given back to upstream
TimesFreed(id) == Cardinality({k \in DOMAIN upstream_freed : upstream_freed[k] = id})

\* C9: release() gives every chunk the arena owns back to upstream, each once
\* (no chunk is ever given back twice, none that is still owned), and leaves the
\* arena as the constructor does; from then on the arena and one constructed
\* anew with the same parameters answer every allocate alike (same outcome,
\* same offset, same chunks acquired, same chunks and next size after); a
\* release() right after a release() changes nothing and deallocates nothing.
C9_ReleaseResets ==
  /\ [](\A id \in 1 .. arena.acquired :
          TimesFreed(id) =
            IF \E k \in DOMAIN arena.current_buffer : arena.current_buffer[k].id = id
              THEN 0 ELSE 1)
  /\ []((history # <<>> /\ LastCall.op = "release")
          => /\ arena.current_buffer = <<>>
             /\ arena.next_buffer_size = arena.initial_size
             /\ Len(upstream_freed) = arena.acquired)
  /\ [](twin.active
          => /\ Shape(arena) = Shape(twin.arena)
             /\ LastCall.op = "allocate"
                  => /\ LastCall.ret.outcome = twin.ret.outcome
                     /\ LastCall.ret.offset = twin.ret.offset
                     /\ [k \in {j \in DOMAIN LastCall.upstream_calls :
                                  LastCall.upstream_calls[j].outcome = "ptr"}
                           |-> LastCall.upstream_calls[k].bytes] = twin.acquired)
  /\ [][ (IsArenaCall("release") /\ history # <<>> /\ LastCall.op = "release")
           => (arena' = arena /\ upstream_freed' = upstream_freed) ]_vars

\* a chunk acquired, released, a second release, then an allocation that
\* acquires a chunk again
C9_Witness ==
  /\ Len(history) = 4
  /\ history[1].ret.outcome = "ptr"
  /\ history[2].op = "release"
  /\ history[3].op = "release"
  /\ history[4].ret.outcome = "ptr"
  /\ upstream_freed = <<1>>
  /\ arena.acquired = 2
  /\ arena.initial_size = 64

\* the room left in the current chunk
Remaining ==
  IF arena.current_buffer = <<>> THEN 0
  ELSE arena.current_buffer[1].size - arena.current_buffer[1].offset

====
